---- MODULE Spec2Model ----
(***************************************************************************)
(* Model of mms_tts_demo.py: the start-up path (load_model,                *)
(* create_gradio_interface, the __main__ block) and the request path       *)
(* (generate_audio -> text_to_speech), one request at a time.  The         *)
(* pretrained model, the tokenizer, numpy, soundfile and tempfile are      *)
(* external: each call into them either raises an Exception or yields a    *)
(* value drawn from a small set.                                           *)
(***************************************************************************)
EXTENDS Integers, Sequences, FiniteSets, TLC

VARIABLES
    pc,          \* position of the __main__ script
    model,       \* closure variable model of create_gradio_interface
    tokenizer,   \* closure variable tokenizer of create_gradio_interface
    demo,        \* value returned by create_gradio_interface
    console,     \* lines printed by the start-up path
    loadCount,   \* number of load_model calls made so far
    rpc,         \* position of the request in flight ("idle" when none)
    text,        \* argument text of the request, until its last use (the tokenizer call)
    inputs,      \* local inputs, until its last use (the model call)
    output,      \* local output (model waveform)
    audio,       \* local audio (normalized waveform)
    sample_rate, \* local sample_rate
    temp_file,   \* local temp_file.name
    result,      \* value returned by text_to_speech
    steps,       \* external calls made by the request in flight, in order
    escaped,     \* an exception propagated out of text_to_speech
    files,       \* temporary directory: name -> content
    returned,    \* file paths handed to the UI so far
    uiResult,    \* last value generate_audio gave to the UI outputs
    exc,         \* exception bound to e in the except branch of the request
    nReq,        \* requests started
    nFailed      \* requests that ended in the except branch

vars == <<pc, model, tokenizer, demo, console, loadCount, rpc, text, inputs,
          output, audio, sample_rate, temp_file, result, steps, escaped,
          files, returned, uiResult, exc, nReq, nFailed>>

startVars == <<pc, model, tokenizer, demo, console, loadCount>>

-----------------------------------------------------------------------------
(* Bounds *)

MaxTextLen == 2     \* longest input text
MaxSamples == 2     \* longest waveform the model returns
MaxRequests == 2    \* requests served

-----------------------------------------------------------------------------
(* Values *)

None == "None"
NoModel == [none |-> TRUE]

Whitespace == {" "}
Chars == Whitespace \cup {"x"}
Texts == UNION {[1..n -> Chars] : n \in 0..MaxTextLen}

SamplingRates == {16000, 22050}
Samples == {0 - 2, 0, 1}
Waveforms == UNION {[1..n -> Samples] : n \in 0..MaxSamples}

\* Exceptions the external calls raise; text is str(e).
Errors == {[type |-> "RuntimeError", text |-> "boom"],
           [type |-> "ValueError", text |-> ""]}
ZeroSize == [type |-> "ValueError", text |-> "zero-size array"]

\* Names tempfile can generate; one per request is enough.
NameOf(i) == "/tmp/tmp" \o ToString(i) \o ".wav"
Names == {NameOf(i) : i \in 1..MaxRequests}
Absent == [state |-> "absent"]
Created == [state |-> "created"]

NoLocal == <<>>
Released == <<"<no text>">>   \* text when no request holds one
NoExc == [type |-> "none", text |-> ""]
NoResult == [file |-> None, msg |-> <<>>]

-----------------------------------------------------------------------------
(* Floating point values of the normalized waveform *)

NaN == [kind |-> "nan", num |-> 0, den |-> 0]
Inf(s) == [kind |-> "inf", num |-> s, den |-> 0]
Fin(n, d) == [kind |-> "fin", num |-> n, den |-> d]

Abs(x) == IF x < 0 THEN 0 - x ELSE x

SetMax(S) == CHOOSE m \in S : \A y \in S : y <= m
SetMin(S) == CHOOSE m \in S : \A y \in S : m <= y

RECURSIVE GCD(_, _)
GCD(a, b) == IF b = 0 THEN a ELSE GCD(b, a % b)

\* x / m as numpy divides: 0/0 is nan, x/0 is +-inf, no exception is raised.
Divide(x, m) ==
    IF m = 0
    THEN IF x = 0 THEN NaN ELSE Inf(IF x > 0 THEN 1 ELSE 0 - 1)
    ELSE LET g == GCD(Abs(x), Abs(m))
             s == IF m < 0 THEN 0 - 1 ELSE 1
         IN Fin(s * (x \div g), s * (m \div g))

\* np.max(np.abs(audio)) on a non-empty waveform
Peak(w) == SetMax({Abs(w[i]) : i \in 1..Len(w)})

\* audio / np.max(np.abs(audio))
Normalize(w) == [i \in 1..Len(w) |-> Divide(w[i], Peak(w))]

-----------------------------------------------------------------------------
(* Pure parts of the program *)

model_name == "facebook/mms-tts-urd-script_arabic"

\* except Exception: every exception an external call raises is an Exception.
Caught_only_value_error(e) == e.type = "ValueError"
Caught(e) == e.type \in {"RuntimeError", "ValueError", "OSError"}

\* load_model under outcome o: o.fail says which from_pretrained call raises
\* o.err ("none", "model" or "tokenizer"); o.rate is the configuration's rate.
load_model_keeps_model(o) ==
    IF o.fail = "none"
    THEN [model |-> [name |-> model_name, sampling_rate |-> o.rate],
          tokenizer |-> [name |-> model_name],
          out |-> << <<"Loading model...">>, <<"Model loaded successfully!">> >>,
          raised |-> FALSE]
    ELSE [model |-> IF o.fail = "tokenizer"
                    THEN [name |-> model_name, sampling_rate |-> o.rate]
                    ELSE NoModel,
          tokenizer |-> NoModel,
          out |-> << <<"Loading model...">>, <<"Error loading model: ", o.err.text>> >>,
          raised |-> FALSE]
load_model(o) ==
    IF o.fail = "none"
    THEN [model |-> [name |-> model_name, sampling_rate |-> o.rate],
          tokenizer |-> [name |-> model_name],
          out |-> << <<"Loading model...">>, <<"Model loaded successfully!">> >>,
          raised |-> FALSE]
    ELSE IF Caught(o.err)
    THEN [model |-> NoModel, tokenizer |-> NoModel,
          out |-> << <<"Loading model...">>, <<"Error loading model: ", o.err.text>> >>,
          raised |-> FALSE]
    ELSE [model |-> NoModel, tokenizer |-> NoModel,
          out |-> << <<"Loading model...">> >>,
          raised |-> TRUE]

LoadOutcomes ==
    {[fail |-> "none", rate |-> r, err |-> NoExc] : r \in SamplingRates}
    \cup {[fail |-> f, rate |-> r, err |-> e] :
            f \in {"model", "tokenizer"}, r \in SamplingRates, e \in Errors}

\* text.strip()
strip_nothing(s) == s
strip(s) ==
    LET keep == {i \in 1..Len(s) : s[i] \notin Whitespace}
    IN IF keep = {} THEN <<>> ELSE SubSeq(s, SetMin(keep), SetMax(keep))

\* tokenizer(text, return_tensors="pt"): one id per character of the vocabulary
TokenId(c) == IF c = "x" THEN 7 ELSE 19
Encode(s) == [input_ids |-> [i \in 1..Len(s) |-> TokenId(s[i])]]

\* model.config.sampling_rate
SamplingRate_hard_coded(m) == 16000
SamplingRate(m) == m.sampling_rate

\* the three return statements of text_to_speech
EmptyResult == [file |-> None, msg |-> <<"Please enter some text">>]
SuccessResult(name, rate) ==
    [file |-> name,
     msg |-> <<"Audio generated successfully! Sample rate: ", ToString(rate), "Hz">>]
ErrorResult(e) == [file |-> None, msg |-> <<"Error generating speech: ", e.text>>]

\* generate_audio's branch on the truthiness of audio_file
Truthy(name) == name # None /\ name # ""
generate_audio_inverted(r) ==
    IF ~Truthy(r.file) THEN r ELSE [file |-> None, msg |-> r.msg]
generate_audio(r) ==
    IF Truthy(r.file) THEN r ELSE [file |-> None, msg |-> r.msg]

\* NamedTemporaryFile picks a name no existing file has.  Names are
\* interchangeable, so only the first unused one is explored.
FreshNames_fixed(f) == {NameOf(1)}
FreshNames(f) ==
    LET free == {i \in 1..MaxRequests : f[NameOf(i)] = Absent}
    IN IF free = {} THEN {} ELSE {NameOf(SetMin(free))}

\* order of the statements of text_to_speech after the strip() test
After_skip_write(step) ==
    CASE step = "check" -> "tokenize"
      [] step = "tokenize" -> "infer"
      [] step = "infer" -> "normalize"
      [] step = "normalize" -> "mktemp"
      [] step = "mktemp" -> "return"
      [] step = "write" -> "return"
After_temp_first(step) ==
    CASE step = "check" -> "mktemp"
      [] step = "mktemp" -> "tokenize"
      [] step = "tokenize" -> "infer"
      [] step = "infer" -> "normalize"
      [] step = "normalize" -> "write"
      [] step = "write" -> "return"
After(step) ==
    CASE step = "check" -> "tokenize"
      [] step = "tokenize" -> "infer"
      [] step = "infer" -> "normalize"
      [] step = "normalize" -> "mktemp"
      [] step = "mktemp" -> "write"
      [] step = "write" -> "return"

-----------------------------------------------------------------------------
(* State after the interpreter has read the module, before __main__ runs *)

Init ==
    /\ pc = "main"
    /\ model = NoModel
    /\ tokenizer = NoModel
    /\ demo = None
    /\ console = <<>>
    /\ loadCount = 0
    /\ rpc = "idle"
    /\ text = Released
    /\ inputs = NoLocal
    /\ output = NoLocal
    /\ audio = NoLocal
    /\ sample_rate = 0
    /\ temp_file = None
    /\ result = NoResult
    /\ steps = <<>>
    /\ escaped = FALSE
    /\ files = [n \in Names |-> Absent]
    /\ returned = {}
    /\ uiResult = NoResult
    /\ exc = NoExc
    /\ nReq = 0
    /\ nFailed = 0

reqVars == <<rpc, text, inputs, output, audio, sample_rate, temp_file, result,
             steps, escaped, files, returned, uiResult, exc, nReq, nFailed>>

-----------------------------------------------------------------------------
(* Start-up: __main__, create_gradio_interface, load_model *)

\* print("Starting ...") and the call of create_gradio_interface
Main ==
    /\ pc = "main"
    /\ console' = Append(console, <<"Starting MMS TTS Urdu (Arabic Script) Demo...">>)
    /\ pc' = "load"
    /\ UNCHANGED <<model, tokenizer, demo, loadCount>>
    /\ UNCHANGED reqVars

\* model, tokenizer = load_model()
Load(o) ==
    /\ pc = "load"
    /\ LET r == load_model(o)
       IN /\ model' = r.model
          /\ tokenizer' = r.tokenizer
          /\ console' = console \o r.out
          /\ pc' = IF r.raised THEN "crashed" ELSE "create"
    /\ loadCount' = loadCount + 1
    /\ UNCHANGED demo
    /\ UNCHANGED reqVars

\* the rest of create_gradio_interface: the None test, then the Blocks
CreateInterface ==
    /\ pc = "create"
    /\ IF model = NoModel
       THEN /\ console' = Append(console,
                 <<"Failed to load model. Please check your internet connection and try again.">>)
            /\ demo' = None
       ELSE /\ console' = console
            /\ demo' = "Blocks"
    /\ pc' = "created"
    /\ UNCHANGED <<model, tokenizer, loadCount>>
    /\ UNCHANGED reqVars

\* if demo: demo.launch(...) else: print(...)
Launch ==
    /\ pc = "created"
    /\ IF demo # None
       THEN /\ pc' = "serving"
            /\ console' = console
       ELSE /\ pc' = "exit"
            /\ console' = Append(console, <<"Failed to create the demo interface.">>)
    /\ UNCHANGED <<model, tokenizer, demo, loadCount>>
    /\ UNCHANGED reqVars

-----------------------------------------------------------------------------
(* A request: generate_btn.click -> generate_audio -> text_to_speech *)

\* the except branch of text_to_speech, entered with exception e
Except(e) ==
    IF Caught(e)
    THEN /\ exc' = e
         /\ result' = ErrorResult(e)
         /\ rpc' = "wrapper"
         /\ nFailed' = nFailed + 1
         /\ escaped' = escaped
    ELSE /\ exc' = e
         /\ result' = result
         /\ rpc' = "idle"
         /\ nFailed' = nFailed
         /\ escaped' = TRUE

\* the UI calls generate_audio(text), which calls text_to_speech
Click_reloads(t) ==
    /\ pc = "serving"
    /\ rpc = "idle"
    /\ nReq < MaxRequests
    /\ nReq' = nReq + 1
    /\ rpc' = "check"
    /\ text' = t
    /\ inputs' = NoLocal
    /\ output' = NoLocal
    /\ audio' = NoLocal
    /\ sample_rate' = 0
    /\ temp_file' = None
    /\ result' = NoResult
    /\ steps' = <<>>
    /\ exc' = NoExc
    /\ loadCount' = loadCount + 1
    /\ UNCHANGED <<pc, model, tokenizer, demo, console>>
    /\ UNCHANGED <<escaped, files, returned, uiResult, nFailed>>
Click(t) ==
    /\ pc = "serving"
    /\ rpc = "idle"
    /\ nReq < MaxRequests
    /\ nReq' = nReq + 1
    /\ rpc' = "check"
    /\ text' = t
    /\ inputs' = NoLocal
    /\ output' = NoLocal
    /\ audio' = NoLocal
    /\ sample_rate' = 0
    /\ temp_file' = None
    /\ result' = NoResult
    /\ steps' = <<>>
    /\ exc' = NoExc
    /\ UNCHANGED startVars
    /\ UNCHANGED <<escaped, files, returned, uiResult, nFailed>>

\* if not text.strip(): return None, "Please enter some text"
Check ==
    /\ rpc = "check"
    /\ IF strip(text) = <<>>
       THEN /\ result' = EmptyResult
            /\ rpc' = "wrapper"
       ELSE /\ result' = result
            /\ rpc' = After("check")
    /\ UNCHANGED startVars
    /\ UNCHANGED <<text, inputs, output, audio, sample_rate, temp_file, steps,
                   escaped, files, returned, uiResult, exc, nReq, nFailed>>

\* inputs = tokenizer(text, return_tensors="pt")
\* text is not read after this line, so its value is dropped from the state.
TokenizeOk ==
    /\ rpc = "tokenize"
    /\ steps' = Append(steps, "tokenize")
    /\ inputs' = Encode(text)
    /\ text' = Released
    /\ rpc' = After("tokenize")
    /\ UNCHANGED startVars
    /\ UNCHANGED <<output, audio, sample_rate, temp_file, result,
                   escaped, files, returned, uiResult, exc, nReq, nFailed>>

TokenizeFail(e) ==
    /\ rpc = "tokenize"
    /\ steps' = Append(steps, "tokenize")
    /\ Except(e)
    /\ UNCHANGED startVars
    /\ UNCHANGED <<text, inputs, output, audio, sample_rate, temp_file,
                   files, returned, uiResult, nReq>>

\* output = model(**inputs).waveform; any waveform may come back (the model
\* draws noise on each call).  inputs is not read after this line.
InferOk(w) ==
    /\ rpc = "infer"
    /\ steps' = Append(steps, "infer")
    /\ output' = w
    /\ inputs' = NoLocal
    /\ rpc' = After("infer")
    /\ UNCHANGED startVars
    /\ UNCHANGED <<text, audio, sample_rate, temp_file, result,
                   escaped, files, returned, uiResult, exc, nReq, nFailed>>

InferFail(e) ==
    /\ rpc = "infer"
    /\ steps' = Append(steps, "infer")
    /\ Except(e)
    /\ UNCHANGED startVars
    /\ UNCHANGED <<text, inputs, output, audio, sample_rate, temp_file,
                   files, returned, uiResult, nReq>>

\* audio = output.cpu().numpy().squeeze(); audio = audio / np.max(np.abs(audio))
\* np.max of an empty array raises ValueError.
NormalizeStep ==
    /\ rpc = "normalize"
    /\ steps' = Append(steps, "normalize")
    /\ IF Len(output) = 0
       THEN /\ Except(ZeroSize)
            /\ audio' = audio
       ELSE /\ audio' = Normalize(output)
            /\ rpc' = After("normalize")
            /\ UNCHANGED <<result, escaped, exc, nFailed>>
    /\ UNCHANGED startVars
    /\ UNCHANGED <<text, inputs, output, sample_rate, temp_file,
                   files, returned, uiResult, nReq>>

\* sample_rate = model.config.sampling_rate
\* temp_file = tempfile.NamedTemporaryFile(delete=False, suffix=".wav")
CreateTempOk(n) ==
    /\ rpc = "mktemp"
    /\ n \in FreshNames(files)
    /\ steps' = Append(steps, "mktemp")
    /\ sample_rate' = SamplingRate(model)
    /\ temp_file' = n
    /\ files' = [files EXCEPT ![n] = Created]
    /\ rpc' = After("mktemp")
    /\ UNCHANGED startVars
    /\ UNCHANGED <<text, inputs, output, audio, result, escaped, returned,
                   uiResult, exc, nReq, nFailed>>

CreateTempFail(e) ==
    /\ rpc = "mktemp"
    /\ steps' = Append(steps, "mktemp")
    /\ sample_rate' = SamplingRate(model)
    /\ Except(e)
    /\ UNCHANGED startVars
    /\ UNCHANGED <<text, inputs, output, audio, temp_file, files, returned,
                   uiResult, nReq>>

\* sf.write(temp_file.name, audio, sample_rate)
WriteOk ==
    /\ rpc = "write"
    /\ steps' = Append(steps, "write")
    /\ files' = [files EXCEPT ![temp_file] =
                    [state |-> "written", audio |-> audio, rate |-> sample_rate]]
    /\ rpc' = After("write")
    /\ UNCHANGED startVars
    /\ UNCHANGED <<text, inputs, output, audio, sample_rate, temp_file, result,
                   escaped, returned, uiResult, exc, nReq, nFailed>>

WriteFail(e) ==
    /\ rpc = "write"
    /\ steps' = Append(steps, "write")
    /\ Except(e)
    /\ UNCHANGED startVars
    /\ UNCHANGED <<text, inputs, output, audio, sample_rate, temp_file,
                   files, returned, uiResult, nReq>>

\* return temp_file.name, f"Audio generated successfully! Sample rate: ...Hz"
ReturnSuccess ==
    /\ rpc = "return"
    /\ result' = SuccessResult(temp_file, sample_rate)
    /\ rpc' = "wrapper"
    /\ UNCHANGED startVars
    /\ UNCHANGED <<text, inputs, output, audio, sample_rate, temp_file, steps,
                   escaped, files, returned, uiResult, exc, nReq, nFailed>>

\* generate_audio hands (audio_file, message) to the two UI outputs; the
\* frame of text_to_speech and its locals are gone afterwards.
Wrapper ==
    /\ rpc = "wrapper"
    /\ uiResult' = generate_audio(result)
    /\ returned' = IF generate_audio(result).file # None
                   THEN returned \cup {generate_audio(result).file}
                   ELSE returned
    /\ rpc' = "idle"
    /\ text' = Released
    /\ inputs' = NoLocal
    /\ output' = NoLocal
    /\ audio' = NoLocal
    /\ sample_rate' = 0
    /\ temp_file' = None
    /\ result' = NoResult
    /\ steps' = <<>>
    /\ exc' = NoExc
    /\ UNCHANGED startVars
    /\ UNCHANGED <<escaped, files, nReq, nFailed>>

-----------------------------------------------------------------------------

Next ==
    \/ Main
    \/ \E o \in LoadOutcomes : Load(o)
    \/ CreateInterface
    \/ Launch
    \/ \E t \in Texts : Click(t)
    \/ Check
    \/ TokenizeOk
    \/ \E e \in Errors : TokenizeFail(e)
    \/ \E w \in Waveforms : InferOk(w)
    \/ \E e \in Errors : InferFail(e)
    \/ NormalizeStep
    \/ \E n \in Names : CreateTempOk(n)
    \/ \E e \in Errors : CreateTempFail(e)
    \/ WriteOk
    \/ \E e \in Errors : WriteFail(e)
    \/ ReturnSuccess
    \/ Wrapper

Spec == Init /\ [][Next]_vars

-----------------------------------------------------------------------------
(* Vocabulary of the properties *)

StepOrder == <<"tokenize", "infer", "normalize", "mktemp", "write">>
IsPrefix(a, b) == Len(a) <= Len(b) /\ SubSeq(b, 1, Len(a)) = a

IsBlank(t) == t # Released /\ \A i \in 1..Len(t) : t[i] \in Whitespace

IsSuccessMsg(m) ==
    Len(m) = 3 /\ m[1] = "Audio generated successfully! Sample rate: " /\ m[3] = "Hz"
IsErrorMsg(m) ==
    \/ m = <<"Please enter some text">>
    \/ Len(m) = 2 /\ m[1] = "Error generating speech: "
TwoShapes(r) ==
    \/ r.file # None /\ IsSuccessMsg(r.msg)
    \/ r.file = None /\ IsErrorMsg(r.msg)

Succeeded == rpc = "wrapper" /\ result.file # None
Existing(f) == {n \in Names : f[n] # Absent}
Printed(prefix) == \E i \in 1..Len(console) : console[i][1] = prefix

AbsLeqOne(v) == v.kind = "fin" /\ Abs(v.num) <= Abs(v.den)
AbsIsOne(v) == v.kind = "fin" /\ Abs(v.num) = Abs(v.den)
NonSilent(w) == \E i \in 1..Len(w) : w[i] # 0

-----------------------------------------------------------------------------
(* Properties *)

\* C1: whatever the input and whatever each external call does, what
\* text_to_speech returns and what generate_audio hands to the UI is either
\* (a file path, the success message) or (no file, an error message).
C1_TwoShapes ==
    /\ rpc = "wrapper" => TwoShapes(result) /\ TwoShapes(generate_audio(result))
    /\ uiResult # NoResult => TwoShapes(uiResult)
C1_Witness == nFailed >= 1 /\ uiResult.file # None /\ rpc = "idle"

\* C2: an empty or whitespace-only text never gets past the strip() test:
\* the request returns (None, "Please enter some text") and has called nothing.
C2_BlankRejected ==
    (rpc \notin {"idle", "check"} /\ IsBlank(text)) =>
        /\ rpc = "wrapper"
        /\ result = EmptyResult
        /\ generate_audio(result) = EmptyResult
        /\ steps = <<>>
C2_Witness ==
    /\ rpc = "wrapper" /\ IsBlank(text) /\ Len(text) >= 1
    /\ result = EmptyResult /\ Existing(files) # {}

\* C3: a failed load is printed and not raised, leaves no interface and no
\* launch; the launch is reached only with model and tokenizer both loaded.
C3_LoadFailureStopsLaunch ==
    /\ pc # "crashed"
    /\ pc = "serving" =>
          /\ model # NoModel /\ tokenizer # NoModel /\ demo # None
          /\ Printed("Model loaded successfully!")
          /\ ~Printed("Error loading model: ")
    /\ (loadCount >= 1 /\ (model = NoModel \/ tokenizer = NoModel)) =>
          /\ Printed("Error loading model: ")
          /\ pc # "serving"
          /\ demo = None
          /\ model = NoModel /\ tokenizer = NoModel
C3_Witness ==
    /\ pc = "exit" /\ demo = None /\ Printed("Error loading model: ")
    /\ Printed("Failed to create the demo interface.")

\* C4: an exception of a request is caught and returned as
\* "Error generating speech: " followed by its text, none escapes, the loaded
\* pair and the serving state survive it and the next request can start.
C4_FailureNonFatal ==
    /\ ~escaped
    /\ exc # NoExc =>
          /\ rpc = "wrapper"
          /\ result = [file |-> None, msg |-> <<"Error generating speech: ", exc.text>>]
    /\ nFailed >= 1 =>
          /\ pc = "serving" /\ model # NoModel /\ tokenizer # NoModel
          /\ (rpc = "idle" /\ nReq < MaxRequests) =>
                \A t \in Texts : ENABLED Click(t)
C4_Witness == nFailed >= 1 /\ Succeeded /\ nReq = nFailed + 1

\* C5: on success the rate the file was written with and the rate in the
\* message are the loaded model's config.sampling_rate.
C5_SampleRate ==
    Succeeded =>
        /\ files[result.file].state = "written"
        /\ files[result.file].rate = model.sampling_rate
        /\ result.msg = <<"Audio generated successfully! Sample rate: ",
                          ToString(model.sampling_rate), "Hz">>
C5_Witness == Succeeded /\ model.sampling_rate = 22050 /\ sample_rate = 22050

\* C6: the waveform written to the file has every sample of absolute value
\* at most 1.0, and one of absolute value exactly 1.0 when the model's
\* waveform is not silent; the silent waveform included.
C6_PeakAtMostOne ==
    (Succeeded /\ files[result.file].state = "written") =>
        LET a == files[result.file].audio
        IN /\ \A i \in 1..Len(a) : AbsLeqOne(a[i])
           /\ NonSilent(output) => \E i \in 1..Len(a) : AbsIsOne(a[i])

\* C7: no step removes or rewrites a temporary file that exists, a step
\* adds at most one file and under a name not in use, each success hands
\* the UI one path never handed before, and every path handed out exists.
C7_FilesOnlyGrow ==
    /\ [](returned \subseteq Existing(files)
          /\ Cardinality(Existing(files)) <= nReq)
    /\ [][/\ Existing(files) \subseteq Existing(files')
          /\ \A n \in returned : files'[n] = files[n]
          /\ returned \subseteq returned'
          /\ Existing(files') # Existing(files) =>
                /\ Existing(files') \ Existing(files) = {temp_file'}
                /\ rpc = "mktemp"
          /\ (Succeeded /\ rpc' = "idle") =>
                /\ returned' = returned \cup {result.file}
                /\ result.file \notin returned
                /\ Len(SelectSeq(steps, LAMBDA x : x = "mktemp")) = 1
       ]_vars
C7_Witness == Cardinality(returned) = 2 /\ rpc = "idle"

\* C8: load_model runs once, before the interface exists; while serving no
\* step changes model, tokenizer or the load count, and between requests no
\* request-local value is left.
C8_LoadedOnce ==
    /\ [](/\ loadCount <= 1
          /\ pc \in {"create", "created", "serving", "exit"} => loadCount = 1
          /\ demo # None => loadCount = 1
          /\ (pc = "serving" /\ rpc = "idle") =>
                /\ text = Released /\ inputs = NoLocal /\ output = NoLocal
                /\ audio = NoLocal /\ sample_rate = 0 /\ temp_file = None
                /\ result = NoResult /\ exc = NoExc)
    /\ [][pc = "serving" =>
             /\ model' = model /\ tokenizer' = tokenizer
             /\ loadCount' = loadCount /\ pc' = "serving"]_vars
C8_Witness ==
    /\ nReq = MaxRequests /\ rpc = "idle" /\ loadCount = 1
    /\ nFailed >= 1 /\ Cardinality(returned) >= 1

\* C9: when a path and the success message are returned, the request has
\* called tokenize, infer, normalize, mktemp, write in this order and the
\* file at that path holds this request's normalized waveform.
C9_WrittenBeforeReturn ==
    /\ IsPrefix(steps, StepOrder)
    /\ Succeeded =>
          /\ steps = StepOrder
          /\ result.file = temp_file
          /\ files[result.file] =
                [state |-> "written", audio |-> Normalize(output), rate |-> sample_rate]
C9_Witness == Succeeded /\ Len(output) = 2 /\ output[1] # output[2]

\* C10: a blank request calls nothing; a request that failed in tokenize,
\* infer or normalize has created no file; a file appears only in the mktemp
\* step of a request whose tokenize, infer and normalize have completed.
C10_NoFileBeforeNormalize ==
    /\ []((rpc # "idle" /\ IsBlank(text)) => steps = <<>> /\ temp_file = None)
    /\ []((exc # NoExc /\ Len(steps) <= 3) =>
             /\ temp_file = None
             /\ IsPrefix(steps, <<"tokenize", "infer", "normalize">>))
    /\ [][files' # files =>
             /\ IsPrefix(<<"tokenize", "infer", "normalize", "mktemp">>, steps')
             /\ audio # NoLocal /\ exc = NoExc /\ ~IsBlank(text)]_vars
C10_Witness ==
    /\ rpc = "wrapper" /\ exc = ZeroSize
    /\ steps = <<"tokenize", "infer", "normalize">>
    /\ Existing(files) = {}

====
